---- MODULE Spec2Model ----
(***************************************************************************)
(* Model of the Rotten Potatoes backend (src/app.py): the persistent       *)
(* store (movies, movie_reviews), the module-level classifier state, the   *)
(* start-up seeder and the request handlers /submit_review, /score,        *)
(* /reviews and /movies.                                                   *)
(*                                                                         *)
(* Conventions.                                                            *)
(*  - A score is a number of hundredths: 66.67 is 6667, 100.0 is 10000.    *)
(*  - A classifier label is a sequence of one-character strings, so that   *)
(*    str.lower() is computed character by character.                      *)
(*  - resp is the response of the handler step taken last, with the log    *)
(*    records it emitted (events) and the Session calls it made (dbCalls). *)
(*  - The two COUNT queries of /score are two steps: the engine is created *)
(*    with the default isolation level (READ COMMITTED on PostgreSQL), so  *)
(*    each statement sees the rows committed when it runs.                 *)
(*  - db.commit() of /submit_review is two statements, the INSERT that     *)
(*    takes the key and the COMMIT that makes the row visible, and two     *)
(*    steps: requests run on their own threads and Sessions.  The refresh  *)
(*    and the response are a third step: between the COMMIT and the        *)
(*    response the row is in the table and the request is unanswered.      *)
(***************************************************************************)
EXTENDS Integers, Sequences, FiniteSets, TLC

\* ---------------------------------------------------------------- bounds
\* /submit_review takes a key of the sequence of movie_reviews while the
\* sequence has handed out fewer keys than this.  The successful seeder
\* needs no bound: it inserts the rows of its file, and only into a store
\* without movies.
MaxReviews == 2

\* A seeding whose INSERT of the movies is rolled back does not take the
\* sequence of movies past this value.
MaxMovieKeys == 2

\* ---------------------------------------------------------------- inputs
MovieIds == {1, 2}
Texts == {"t1"}
RunTag == "run1"

LPositive == <<"P", "o", "s", "i", "t", "i", "v", "e">>
LLower == <<"p", "o", "s", "i", "t", "i", "v", "e">>
LUpper == <<"P", "O", "S", "I", "T", "I", "V", "E">>
LNegative == <<"N", "e", "g", "a", "t", "i", "v", "e">>
NoLabel == <<>>

\* What model.predict([text]) can do: raise, or return a list whose first
\* element is a str label ('Positive' or 'Negative', the labels train.py
\* fits the model on, or 'POSITIVE', for a model.pkl of another run that
\* spells its labels in upper case) or a value without .lower()
\* (isStr = FALSE).
StrLabel(chars) == [isStr |-> TRUE, chars |-> chars]
NonStrLabel == [isStr |-> FALSE, chars |-> NoLabel]
PredictOutcomes ==
    {[raises |-> TRUE, prediction |-> <<>>],
     [raises |-> FALSE, prediction |-> <<>>],
     [raises |-> FALSE, prediction |-> <<NonStrLabel>>]}
    \cup {[raises |-> FALSE, prediction |-> <<StrLabel(l)>>] :
             l \in {LPositive, LUpper, LNegative}}

\* Where the add/commit/refresh block raises, if it does.  db.commit()
\* flushes the INSERT and then commits: it raises before the INSERT has run
\* ("insert": no key of the sequence is taken) or after it ("commit": the
\* key is taken and the transaction is rolled back).
InsertFailPoints == {"none", "add", "insert"}

CommitFailPoints == {"none", "commit"}
RefreshFailPoints == {"none", "refresh"}

\* What the module body finds in mlruns: no model.pkl, a model.pkl that
\* load_model cannot load, or one that it loads.
ModelFiles == {"missing", "unloadable", "loaded"}

\* ------------------------------------------------------------ str.lower()
\* Labels are ASCII: str.lower() maps each of the 26 upper-case letters to
\* its lower-case letter and leaves every other ASCII character alone.
UpperToLower ==
    ("A" :> "a") @@ ("B" :> "b") @@ ("C" :> "c") @@ ("D" :> "d") @@
    ("E" :> "e") @@ ("F" :> "f") @@ ("G" :> "g") @@ ("H" :> "h") @@
    ("I" :> "i") @@ ("J" :> "j") @@ ("K" :> "k") @@ ("L" :> "l") @@
    ("M" :> "m") @@ ("N" :> "n") @@ ("O" :> "o") @@ ("P" :> "p") @@
    ("Q" :> "q") @@ ("R" :> "r") @@ ("S" :> "s") @@ ("T" :> "t") @@
    ("U" :> "u") @@ ("V" :> "v") @@ ("W" :> "w") @@ ("X" :> "x") @@
    ("Y" :> "y") @@ ("Z" :> "z")

LowerChar(c) == IF c \in DOMAIN UpperToLower THEN UpperToLower[c] ELSE c

Lower(chars) == [i \in 1..Len(chars) |-> LowerChar(chars[i])]

\* The first two statements after model.predict: prediction[0] (IndexError
\* on an empty result) and sentiment.lower() (AttributeError on a non-str).
PredictionRaises(out) ==
    \/ out.raises
    \/ Len(out.prediction) = 0
    \/ ~out.prediction[1].isStr

BadIsPositive(label) == label.chars = LLower

\* is_positive = sentiment.lower() == "positive"
IsPositive(label) == Lower(label.chars) = LLower

\* ------------------------------------------------------------ the queries
\* db.query(MovieReview).filter(movie_id == m).count()
CountTotal(rs, m) == Cardinality({r \in rs : r.movie_id = m})

\* db.query(MovieReview).filter(movie_id == m, isPos == True).count()
BadCountPositive(rs, m) == Cardinality({r \in rs : r.isPos})

CountPositive(rs, m) == Cardinality({r \in rs : r.movie_id = m /\ r.isPos})

RECURSIVE Gcd(_, _)
Gcd(a, b) == IF b = 0 THEN a ELSE Gcd(b, a % b)

RECURSIVE Pow2(_)
Pow2(e) == IF e = 0 THEN 1 ELSE 2 * Pow2(e - 1)

RECURSIVE Pow2Mod(_, _)
\* 2^e modulo m
Pow2Mod(e, m) == IF e = 0 THEN 1 % m ELSE (2 * Pow2Mod(e - 1, m)) % m

\* The sign of x - positive / total * 100, where x is the float that
\* (positive_count / total_reviews) * 100 computes, for the quotients whose
\* hundredths end in an exact half.  These are the fractions n / (32 * 5^j),
\* n odd, in lowest terms.  With y = n / 5^j and s such that y * 2^s lies in
\* [2^52, 2^53), the division gives the 53-bit integer M nearest to y * 2^s
\* (M * 5^j = n * 2^s + c), and the multiplication by 100 rounds 25 * M to
\* 53 bits, to nearest and to even on a tie (25 * M + c2): the error of x
\* has the sign of 25 * c + c2 * 5^j.  Powers of two scale exactly.
\* positive_count is read after total_reviews and can exceed it; with
\* 10000 * positive below 2^31, y lies in [2^-10, 2^18).
FloatErrorSign(positive, total) ==
    LET g == Gcd(positive, total)
        n == positive \div g
        pow5 == (total \div g) \div 32
        \* 2^t0 <= y < 2^(t0 + 1)
        t0 == CHOOSE e \in -10..17 :
                IF e >= 0
                THEN pow5 * Pow2(e) <= n /\ n < pow5 * Pow2(e + 1)
                ELSE pow5 <= n * Pow2(-e) /\ n * Pow2(-e) < 2 * pow5
        rem == (n * Pow2Mod(52 - t0, pow5)) % pow5
        c == IF 2 * rem < pow5 THEN -rem ELSE pow5 - rem
        \* M modulo 64
        m64 == CHOOSE k \in 0..63 : (k * pow5 - c) % 64 = 0
        \* 25 * M has 57 bits (4 to drop) or 58 bits (5 to drop)
        drop == IF (IF t0 >= 0 THEN 25 * n < 32 * pow5 * Pow2(t0)
                               ELSE 25 * n * Pow2(-t0) < 32 * pow5)
                THEN 4 ELSE 5
        low == ((25 * m64) % 64) % Pow2(drop)
        above == (((25 * m64) % 64) \div Pow2(drop)) % 2
        half == Pow2(drop - 1)
        c2 == IF low < half \/ (low = half /\ above = 0) THEN -low
              ELSE Pow2(drop) - low
        err == 25 * c + c2 * pow5
    IN  IF err < 0 THEN -1 ELSE IF err > 0 THEN 1 ELSE 0

\* round((positive / total) * 100, 2), in hundredths.  Off an exact half the
\* float is far nearer to the quotient than to a half, and round gives the
\* nearest hundredth.  On an exact half round sees the float: below the half
\* it rounds down, above it up, and on the half itself to the even
\* neighbour.  (10000 * positive stays below 2^31.)
RoundHundredths(positive, total) ==
    LET q == (10000 * positive) \div total
        r == (10000 * positive) % total
    IN  IF 2 * r < total THEN q
        ELSE IF 2 * r > total THEN q + 1
        ELSE LET sign == FloatErrorSign(positive, total)
             IN  IF sign < 0 THEN q
                 ELSE IF sign > 0 THEN q + 1
                 ELSE IF q % 2 = 0 THEN q ELSE q + 1

BadScoreOf(total, positive) ==
    IF total = 0 THEN 0 ELSE (10000 * positive) \div total

ScoreOf(total, positive) ==
    IF total = 0 THEN 0 ELSE RoundHundredths(positive, total)

MaxIdOf(rs) == CHOOSE r \in rs : \A o \in rs : o.review_id <= r.review_id

MinIdOf(rs) == CHOOSE r \in rs : \A o \in rs : o.review_id >= r.review_id

RECURSIVE TakeDesc(_, _)
\* .order_by(review_id.desc()).limit(n).all()
TakeDesc(rs, n) ==
    IF n = 0 \/ rs = {} THEN <<>>
    ELSE LET top == MaxIdOf(rs) IN <<top>> \o TakeDesc(rs \ {top}, n - 1)

RECURSIVE TakeAsc(_, _)
TakeAsc(rs, n) ==
    IF n = 0 \/ rs = {} THEN <<>>
    ELSE LET low == MinIdOf(rs) IN <<low>> \o TakeAsc(rs \ {low}, n - 1)

ReviewLimit == 3

BadRecentReviews(rs, m) ==
    TakeAsc({r \in rs : r.movie_id = m}, ReviewLimit)

RecentReviews(rs, m) ==
    TakeDesc({r \in rs : r.movie_id = m}, ReviewLimit)

\* ------------------------------------------------------------ seed files
\* An element of initial_movies.json: a JSON object with the keys it has.
MovieEntry(name) == [keys |-> {"name", "desc"}, name |-> name, desc |-> "d"]
MovieEntryNoDesc(name) == [keys |-> {"name"}, name |-> name, desc |-> ""]

\* An element of initial_reviews.json: a 3-element array [name, text,
\* is_positive] (shapeOk), or a value that does not unpack into three names.
ReviewEntry(name, pos) ==
    [shapeOk |-> TRUE, name |-> name, text |-> "t1", isPos |-> pos]
ReviewEntryBadShape == [shapeOk |-> FALSE, name |-> "", text |-> "", isPos |-> FALSE]

\* A file is missing, is not JSON, or holds a list.  The reviews file is
\* not opened when the movies file is missing or is not JSON.
NotOpened == [state |-> "unopened", data |-> <<>>]

MoviesFiles ==
    {[state |-> "missing", data |-> <<>>], [state |-> "invalid", data |-> <<>>]}
    \cup {[state |-> "ok", data |-> d] :
            d \in {<<>>,
                   <<MovieEntry("A"), MovieEntry("B")>>,
                   <<MovieEntry("A"), MovieEntry("A")>>,
                   <<MovieEntry("A"), MovieEntryNoDesc("B")>>}}

ReviewsFiles ==
    {[state |-> "missing", data |-> <<>>], [state |-> "invalid", data |-> <<>>]}
    \cup {[state |-> "ok", data |-> d] :
            d \in {<<>>,
                   <<ReviewEntry("A", TRUE), ReviewEntry("A", FALSE)>>,
                   <<ReviewEntry("A", TRUE), ReviewEntry("B", FALSE)>>,
                   <<ReviewEntry("C", TRUE), ReviewEntry("A", FALSE)>>,
                   <<ReviewEntry("A", TRUE), ReviewEntryBadShape>>}}

\* What a start of the process finds: the database reachable or not, and
\* the two files.
SeedInputsDown == {[dbUp |-> FALSE, mf |-> NotOpened, rf |-> NotOpened]}

SeedInputsSkipped == {[dbUp |-> TRUE, mf |-> NotOpened, rf |-> NotOpened]}

SeedInputsOpened ==
    {[dbUp |-> TRUE, mf |-> mf, rf |-> NotOpened] :
             mf \in {f \in MoviesFiles : f.state # "ok"}}
    \cup {[dbUp |-> TRUE, mf |-> mf, rf |-> rf] :
             mf \in {f \in MoviesFiles : f.state = "ok"}, rf \in ReviewsFiles}

\* ------------------------------------------------------------------ rows
\* Movie.id and MovieReview.review_id are serial primary keys: an INSERT
\* takes the next value of the column's sequence, and a value taken by an
\* INSERT that is rolled back is not handed out again.  seq is the last
\* value the sequence handed out.
NextReviewId(seq) == seq + 1

NewReview(seq, m, text, pos) ==
    [review_id |-> NextReviewId(seq), movie_id |-> m, review |-> text, isPos |-> pos]

Event(level, msg, fields) == [level |-> level, msg |-> msg, fields |-> fields]

\* ------------------------------------------------------------- the seeder
\* m['name'], m['desc'] raise KeyError on an entry without the key.
MoviesLoopRaises(data) ==
    \E i \in 1..Len(data) : ~({"name", "desc"} \subseteq data[i].keys)

\* Movie.name is unique: the INSERT of entry i raises when an earlier entry,
\* or a row of the table ms, has its name.
MovieNameTaken(ms, data, i) ==
    \/ \E j \in 1..(i - 1) : data[j].name = data[i].name
    \/ \E mv \in ms : mv.name = data[i].name

MoviesCommitRaises(ms, data) ==
    \E i \in 1..Len(data) : MovieNameTaken(ms, data, i)

\* The keys the INSERTs of the movies take: one for each entry, up to the
\* first whose name is taken (its key is taken before the unique index
\* refuses the row).
MovieKeysTaken(ms, data) ==
    IF MoviesCommitRaises(ms, data)
    THEN CHOOSE i \in 1..Len(data) :
            /\ MovieNameTaken(ms, data, i)
            /\ \A j \in 1..(i - 1) : ~MovieNameTaken(ms, data, j)
    ELSE Len(data)

\* The rows of the committed movies, with the keys that follow seq.
MovieRows(seq, data) ==
    {[id |-> seq + i, name |-> data[i].name, description |-> data[i].desc] :
        i \in 1..Len(data)}

\* for name, review_text, is_positive in initial_reviews_data: raises
\* ValueError on the first entry that does not unpack.
ReviewsLoopRaises(data) == \E i \in 1..Len(data) : ~data[i].shapeOk

\* The entries the loop handles before it ends or raises.
ReviewsUnpacked(data) ==
    IF ReviewsLoopRaises(data)
    THEN SubSeq(data, 1, (CHOOSE i \in 1..Len(data) :
                            /\ ~data[i].shapeOk
                            /\ \A j \in 1..(i - 1) : data[j].shapeOk) - 1)
    ELSE data

\* movie_name_to_id.get(name)
MovieIdOfName(ms, name) ==
    IF \E mv \in ms : mv.name = name
    THEN (CHOOSE mv \in ms : mv.name = name).id
    ELSE 0

RECURSIVE SeedReviewRows(_, _, _)
\* review_objects, in file order, with the keys the commit assigns after
\* seq.
SeedReviewRows(data, ms, seq) ==
    IF data = <<>> THEN {}
    ELSE LET e == Head(data)
             mid == MovieIdOfName(ms, e.name)
         IN  IF mid # 0
             THEN {NewReview(seq, mid, e.text, e.isPos)}
                      \cup SeedReviewRows(Tail(data), ms, seq + 1)
             ELSE SeedReviewRows(Tail(data), ms, seq)

SkippedPrints(data, ms) ==
    SelectSeq([i \in 1..Len(data) |->
                  IF MovieIdOfName(ms, data[i].name) = 0
                  THEN Event("PRINT", "Warning: Review skipped", {"name"})
                  ELSE Event("PRINT", "", {})],
              LAMBDA e : e.msg # "")

SeedOut(ms, rs, mseq, rseq, prints, raised) ==
    [movies |-> ms, reviews |-> rs, movie_id_seq |-> mseq, review_id_seq |-> rseq,
     prints |-> prints, raised |-> raised]

BadSeedSkips(ms) == FALSE

\* if db.query(Movie).count() > 0: return
SeedSkips(ms) == Cardinality(ms) > 0

\* seed_database(db) on the store (ms, rs), whose sequences handed out mseq
\* and rseq, with the two files; dbUp = FALSE is a database that refuses
\* the connection (create_all raises OperationalError).
seed_database(ms, rs, mseq, rseq, mf, rf, dbUp) ==
    LET populating == <<Event("PRINT", "Database is empty. Populating", {})>>
        ms2 == ms \cup MovieRows(mseq, mf.data)
        mseq2 == mseq + MovieKeysTaken(ms, mf.data)
        rows == SeedReviewRows(rf.data, ms2, rseq)
    IN  IF ~dbUp
        THEN SeedOut(ms, rs, mseq, rseq, <<>>, "OperationalError")
        ELSE IF SeedSkips(ms)
        THEN SeedOut(ms, rs, mseq, rseq,
                     <<Event("PRINT", "Database already seeded", {})>>, "none")
        ELSE IF mf.state = "missing" \/ (mf.state = "ok" /\ rf.state = "missing")
        THEN SeedOut(ms, rs, mseq, rseq,
                     populating \o <<Event("PRINT", "CRITICAL ERROR: Data file not found", {"error"})>>,
                     "none")
        ELSE IF mf.state = "invalid" \/ rf.state = "invalid"
        THEN SeedOut(ms, rs, mseq, rseq,
                     populating \o <<Event("PRINT", "CRITICAL ERROR: invalid JSON", {"error"})>>,
                     "none")
        ELSE IF MoviesLoopRaises(mf.data)
        THEN SeedOut(ms, rs, mseq, rseq, populating, "KeyError")
        ELSE IF MoviesCommitRaises(ms, mf.data)
        THEN SeedOut(ms, rs, mseq2, rseq, populating, "IntegrityError")
        ELSE IF ReviewsLoopRaises(rf.data)
        THEN SeedOut(ms2, rs, mseq2, rseq,
                     populating \o SkippedPrints(ReviewsUnpacked(rf.data), ms2),
                     "ValueError")
        ELSE SeedOut(ms2, rs \cup rows, mseq2, rseq + Cardinality(rows),
                     populating \o SkippedPrints(rf.data, ms2)
                         \o <<Event("PRINT", "Database seeding complete", {"movies", "reviews"})>>,
                     "none")

\* ------------------------------------------------------------------ state
VARIABLES
    tables,         \* TRUE iff create_all has created the two tables
    movies,         \* rows of the table movies
    reviews,        \* rows of the table movie_reviews
    movie_id_seq,   \* last value handed out by the sequence of movies.id
    review_id_seq,  \* last value handed out by the sequence of movie_reviews.review_id
    pending,        \* the /submit_review requests between their INSERT and their response
    model,          \* TRUE iff the module-level model is not None
    latest_run_id,  \* the version tag
    scorePc,        \* /score in flight: "idle", or "counted" after its first query
    scoreMovie,     \* its movie_id (0 when idle)
    scoreTotal,     \* its total_reviews (0 when idle)
    scoreSnaps,     \* the <<total, positive>> of that movie in the store at
                    \* each moment since the first query (history; handed
                    \* to resp.snaps with the response)
    committed,      \* per movie id, <<rows committed, positive rows committed>> (history)
    resp            \* the response produced by the last step (history)

vars == <<tables, movies, reviews, movie_id_seq, review_id_seq, pending, model,
          latest_run_id, scorePc, scoreMovie, scoreTotal, scoreSnaps, committed,
          resp>>

NoResp ==
    [op |-> "none", movie_id |-> 0, status |-> 0, detail |-> "",
     sentiment |-> NonStrLabel, model_version |-> "",
     total_reviews |-> 0, positive_count |-> 0, score |-> 0,
     rows |-> <<>>, movies |-> {}, events |-> <<>>, dbCalls |-> <<>>,
     snaps |-> {}]

CountsOf(rs, m) == <<CountTotal(rs, m), CountPositive(rs, m)>>

\* The label is "positive" up to the case of each letter.
MatchesPositive(chars) ==
    /\ Len(chars) = Len(LLower)
    /\ \A i \in 1..Len(LLower) : chars[i] \in {LLower[i], LUpper[i]}

\* The history after the COMMIT of a submission for movie_id that the
\* classifier labelled label.
CommitSubmitted(c, movie_id, label) ==
    [c EXCEPT ![movie_id] =
        <<@[1] + 1, @[2] + (IF MatchesPositive(label.chars) THEN 1 ELSE 0)>>]

\* The history after the COMMIT of the reviews of a seed file: one row for
\* each entry, for the movie that ms names as the entry does, positive when
\* the entry says so.
CommitSeeded(c, ms, entries) ==
    [m \in MovieIds |->
        LET mine == {i \in 1..Len(entries) : MovieIdOfName(ms, entries[i].name) = m}
        IN  <<c[m][1] + Cardinality(mine),
              c[m][2] + Cardinality({i \in mine : entries[i].isPos})>>]

\* The snapshots a /score in flight could have seen, after the store became rs.
SnapsAfter(rs) ==
    IF scorePc = "counted"
    THEN scoreSnaps \cup {CountsOf(rs, scoreMovie)}
    ELSE scoreSnaps

\* -------------------------------------------------------------- start-up
\* The module body: it prints, walks mlruns for a model.pkl, loads it and
\* takes the version tag from the path; whatever it raises is logged and
\* leaves model None.
load_model(pkl) ==
    LET loading == <<Event("PRINT", "Loading model...", {})>>
        found == <<Event("PRINT", "Found model.pkl", {"model_uri"})>>
        failed == <<Event("ERROR", "CRITICAL ERROR: Could not load model", {"error"})>>
    IN  IF pkl = "missing"
        THEN [model |-> FALSE, latest_run_id |-> "Unknown", events |-> loading \o failed]
        ELSE IF pkl = "unloadable"
        THEN [model |-> FALSE, latest_run_id |-> "Unknown",
              events |-> loading \o found \o failed]
        ELSE [model |-> TRUE, latest_run_id |-> RunTag,
              events |-> loading \o found
                            \o <<Event("PRINT", "Model loaded successfully!", {})>>]

\* What a start of the process leaves, on the store (ms, rs) with the
\* sequences at mseq and rseq and the history c: the module body runs, then
\* startup_event runs seed_database and catches what it raises.
\* Base.metadata.create_all has created the tables unless the database
\* refused the connection.
startup_event(tb, ms, rs, mseq, rseq, c, pkl, in) ==
    LET out == seed_database(ms, rs, mseq, rseq, in.mf, in.rf, in.dbUp)
        loaded == load_model(pkl)
        seeded ==
            IF \E i \in 1..Len(out.prints) : out.prints[i].msg = "Database seeding complete"
            THEN in.rf.data
            ELSE <<>>
        caught ==
            IF out.raised = "none" THEN <<>>
            ELSE IF out.raised = "OperationalError"
            THEN <<Event("PRINT", "WARNING: Could not connect to database on startup", {"error"})>>
            ELSE <<Event("PRINT", "FATAL ERROR during startup/seeding", {"error"})>>
    IN  [tables |-> tb \/ in.dbUp,
         movies |-> out.movies,
         reviews |-> out.reviews,
         movie_id_seq |-> out.movie_id_seq,
         review_id_seq |-> out.review_id_seq,
         committed |-> CommitSeeded(c, out.movies, seeded),
         model |-> loaded.model,
         latest_run_id |-> loaded.latest_run_id,
         resp |-> [NoResp EXCEPT !.op = "startup",
                                 !.detail = out.raised,
                                 !.events = loaded.events \o out.prints \o caught]]

\* A seeding that reaches the INSERT of the movies and has it rolled back.
SeedRollsBack(ms, in) ==
    /\ in.mf.state = "ok"
    /\ in.rf.state = "ok"
    /\ ~MoviesLoopRaises(in.mf.data)
    /\ MoviesCommitRaises(ms, in.mf.data)

\* The files are not opened when the database is down or the movies table
\* has rows.
SeedInputsRead(ms, mseq) ==
    SeedInputsDown
    \cup (IF SeedSkips(ms) THEN SeedInputsSkipped
          ELSE {in \in SeedInputsOpened :
                   SeedRollsBack(ms, in) =>
                       mseq + MovieKeysTaken(ms, in.mf.data) <= MaxMovieKeys})

\* The first start of the process, on a database without tables.
Init ==
    \E st \in {startup_event(FALSE, {}, {}, 0, 0, [m \in MovieIds |-> <<0, 0>>], pkl, in) :
                  pkl \in ModelFiles, in \in SeedInputsRead({}, 0)} :
        /\ tables = st.tables
        /\ movies = st.movies
        /\ reviews = st.reviews
        /\ movie_id_seq = st.movie_id_seq
        /\ review_id_seq = st.review_id_seq
        /\ pending = {}
        /\ committed = st.committed
        /\ model = st.model
        /\ latest_run_id = st.latest_run_id
        /\ resp = st.resp
        /\ scorePc = "idle"
        /\ scoreMovie = 0
        /\ scoreTotal = 0
        /\ scoreSnaps = {}

\* The process is started again and leaves st.  Requests in flight in the
\* previous process are gone: the transactions they had open are rolled
\* back, the rows they had committed stay.
StartupTo(st) ==
        /\ tables' = st.tables
        /\ movies' = st.movies
        /\ reviews' = st.reviews
        /\ movie_id_seq' = st.movie_id_seq
        /\ review_id_seq' = st.review_id_seq
        /\ pending' = {}
        /\ committed' = st.committed
        /\ model' = st.model
        /\ latest_run_id' = st.latest_run_id
        /\ resp' = st.resp
        /\ scorePc' = "idle"
        /\ scoreMovie' = 0
        /\ scoreTotal' = 0
        /\ scoreSnaps' = {}

Startup ==
    \E st \in {startup_event(tables, movies, reviews, movie_id_seq, review_id_seq,
                             committed, pkl, in) :
                  pkl \in ModelFiles, in \in SeedInputsRead(movies, movie_id_seq)} :
        StartupTo(st)

\* ---------------------------------------------------------- /submit_review
\* logging.error(f"Database insertion failed: {e}")
PersistenceEvents == <<Event("ERROR", "Database insertion failed", {"error"})>>

NoPredictionEvents == <<>>

\* logging.error(f"Prediction failed: {e}")
PredictionEvents == <<Event("ERROR", "Prediction failed", {"error"})>>

\* The Session calls of the add/commit/refresh block and its handler.
DbCallsOf(fail) ==
    CASE fail = "add" -> <<"add", "rollback">>
      [] fail \in {"insert", "commit"} -> <<"add", "commit", "rollback">>
      [] fail = "refresh" -> <<"add", "commit", "refresh", "rollback">>
      [] OTHER -> <<"add", "commit", "refresh">>

BadModelAbsent(mdl) == FALSE

\* if not model:
ModelAbsent(mdl) == ~mdl

\* A request after its INSERT: the row it inserted, the label it will answer
\* with, and how far it is: "inserted" until its COMMIT has returned,
\* "committed" from then until it answers.
InFlight(row, label, phase) == [row |-> row, sentiment |-> label, phase |-> phase]

AwaitingCommit == {p \in pending : p.phase = "inserted"}

AwaitingResponse == {p \in pending : p.phase = "committed"}

\* The handler up to the INSERT that db.commit() flushes: it answers when
\* the model is absent, the prediction raises, db.add raises or the INSERT
\* does not run; otherwise the INSERT takes the next key and the request
\* waits for its COMMIT.
submit_and_predict_review(movie_id, text, out, fail) ==
    LET label == out.prediction[1]
        row == NewReview(review_id_seq, movie_id, text, IsPositive(label))
        base == [NoResp EXCEPT !.op = "submit", !.movie_id = movie_id]
    IN  IF ModelAbsent(model)
        THEN /\ resp' = [base EXCEPT !.status = 503,
                                     !.detail = "Model not loaded. Check server logs."]
             /\ UNCHANGED <<review_id_seq, pending>>
        ELSE IF PredictionRaises(out)
        THEN /\ resp' = [base EXCEPT !.status = 500,
                                     !.detail = "Prediction service failed.",
                                     !.events = PredictionEvents]
             /\ UNCHANGED <<review_id_seq, pending>>
        ELSE IF fail # "none"
        THEN /\ resp' = [base EXCEPT !.status = 500,
                                     !.detail = "Review saved failed but prediction was successful.",
                                     !.events = PersistenceEvents,
                                     !.dbCalls = DbCallsOf(fail)]
             /\ UNCHANGED <<review_id_seq, pending>>
        ELSE /\ review_id_seq < MaxReviews
             /\ review_id_seq' = review_id_seq + 1
             /\ pending' = pending \cup {InFlight(row, label, "inserted")}
             /\ resp' = NoResp

\* The COMMIT of db.commit(), for the request p whose INSERT has run.  When
\* it returns the row is in the table, for every other request to see, and
\* the handler has yet to refresh and answer; when it raises the handler
\* rolls back, logs and answers.
commit_review(p, fail) ==
    LET base == [NoResp EXCEPT !.op = "submit", !.movie_id = p.row.movie_id]
    IN  IF fail = "commit"
        THEN /\ pending' = pending \ {p}
             /\ resp' = [base EXCEPT !.status = 500,
                                     !.detail = "Review saved failed but prediction was successful.",
                                     !.events = PersistenceEvents,
                                     !.dbCalls = DbCallsOf(fail)]
             /\ UNCHANGED <<reviews, committed, scoreSnaps>>
        ELSE /\ pending' = (pending \ {p}) \cup {InFlight(p.row, p.sentiment, "committed")}
             /\ reviews' = reviews \cup {p.row}
             /\ committed' = CommitSubmitted(committed, p.row.movie_id, p.sentiment)
             /\ scoreSnaps' = SnapsAfter(reviews')
             /\ resp' = NoResp

\* The rest of the handler, for the request p whose COMMIT has returned:
\* db.refresh(new_review), then the response, or the except block when the
\* refresh raises.  The row stays in the table either way.
refresh_and_respond(p, fail) ==
    LET base == [NoResp EXCEPT !.op = "submit", !.movie_id = p.row.movie_id]
    IN  /\ pending' = pending \ {p}
        /\ resp' =
             IF fail = "none"
             THEN [base EXCEPT !.status = 200,
                               !.sentiment = p.sentiment,
                               !.model_version = latest_run_id,
                               !.detail = "Review submitted and analyzed successfully.",
                               !.dbCalls = DbCallsOf(fail)]
             ELSE [base EXCEPT !.status = 500,
                               !.detail = "Review saved failed but prediction was successful.",
                               !.events = PersistenceEvents,
                               !.dbCalls = DbCallsOf(fail)]

\* The inputs a submission reads: the classifier is not called without a
\* model, and the Session is not used when the prediction raised.
OutcomesRead == IF model THEN PredictOutcomes ELSE {[raises |-> TRUE, prediction |-> <<>>]}

\* Without the tables the INSERT that commit flushes raises, and there is
\* no sequence to take a key from.
FailPointsRead(out) ==
    IF model /\ ~PredictionRaises(out)
    THEN (IF tables THEN InsertFailPoints ELSE {"add", "insert"})
    ELSE {"none"}

Submit ==
    \E movie_id \in MovieIds, text \in Texts, out \in OutcomesRead :
      \E fail \in FailPointsRead(out) :
        /\ submit_and_predict_review(movie_id, text, out, fail)
        /\ UNCHANGED <<tables, movies, reviews, movie_id_seq, model, latest_run_id,
                       scorePc, scoreMovie, scoreTotal, scoreSnaps, committed>>

SubmitCommit ==
    \E p \in AwaitingCommit, fail \in CommitFailPoints :
        /\ commit_review(p, fail)
        /\ UNCHANGED <<tables, movies, movie_id_seq, review_id_seq, model,
                       latest_run_id, scorePc, scoreMovie, scoreTotal>>

SubmitRespond ==
    \E p \in AwaitingResponse, fail \in RefreshFailPoints :
        /\ refresh_and_respond(p, fail)
        /\ UNCHANGED <<tables, movies, reviews, movie_id_seq, review_id_seq, model,
                       latest_run_id, scorePc, scoreMovie, scoreTotal, scoreSnaps,
                       committed>>

\* ------------------------------------------------------------------ /score
\* A query on a database without the tables raises, and the handlers of the
\* read endpoints catch nothing: the framework answers 500.
QueryRaised(op, movie_id) ==
    [NoResp EXCEPT !.op = op, !.movie_id = movie_id, !.status = 500,
                   !.detail = "Internal Server Error"]

\* The first query of get_movie_score: total_reviews.
ScoreCountTotal ==
    \E movie_id \in MovieIds :
        /\ scorePc = "idle"
        /\ IF tables
           THEN /\ scorePc' = "counted"
                /\ scoreMovie' = movie_id
                /\ scoreTotal' = CountTotal(reviews, movie_id)
                /\ scoreSnaps' = {CountsOf(reviews, movie_id)}
                /\ resp' = NoResp
           ELSE /\ resp' = QueryRaised("score", movie_id)
                /\ UNCHANGED <<scorePc, scoreMovie, scoreTotal, scoreSnaps>>
        /\ UNCHANGED <<tables, movies, reviews, movie_id_seq, review_id_seq, pending, model,
                       latest_run_id, committed>>

\* The second query, positive_count, and the response.
ScoreCountPositive ==
    /\ scorePc = "counted"
    /\ LET positive_count == CountPositive(reviews, scoreMovie)
       IN  resp' = [NoResp EXCEPT !.op = "score",
                                  !.movie_id = scoreMovie,
                                  !.status = 200,
                                  !.total_reviews = scoreTotal,
                                  !.positive_count = positive_count,
                                  !.score = ScoreOf(scoreTotal, positive_count),
                                  !.snaps = scoreSnaps]
    /\ scorePc' = "idle"
    /\ scoreMovie' = 0
    /\ scoreTotal' = 0
    /\ scoreSnaps' = {}
    /\ UNCHANGED <<tables, movies, reviews, movie_id_seq, review_id_seq, pending, model,
                   latest_run_id, committed>>

\* ------------------------------------------------------- /reviews, /movies
GetReviews ==
    \E movie_id \in MovieIds :
        /\ resp' = IF tables
                    THEN [NoResp EXCEPT !.op = "reviews",
                                        !.movie_id = movie_id,
                                        !.status = 200,
                                        !.rows = RecentReviews(reviews, movie_id)]
                    ELSE QueryRaised("reviews", movie_id)
        /\ UNCHANGED <<tables, movies, reviews, movie_id_seq, review_id_seq, pending, model,
                       latest_run_id, scorePc, scoreMovie, scoreTotal, scoreSnaps,
                       committed>>

GetAllMovies ==
    /\ resp' = IF tables
                THEN [NoResp EXCEPT !.op = "movies", !.status = 200, !.movies = movies]
                ELSE QueryRaised("movies", 0)
    /\ UNCHANGED <<tables, movies, reviews, movie_id_seq, review_id_seq, pending, model,
                   latest_run_id, scorePc, scoreMovie, scoreTotal, scoreSnaps,
                   committed>>

Next ==
    \/ Startup
    \/ Submit
    \/ SubmitCommit
    \/ SubmitRespond
    \/ ScoreCountTotal
    \/ ScoreCountPositive
    \/ GetReviews
    \/ GetAllMovies

Spec == Init /\ [][Next]_vars

\* ================================================================ claims
\* The kinds of response of /submit_review.
ModelUnavailable(r) ==
    r.op = "submit" /\ r.status = 503

ClassificationFailed(r) ==
    r.op = "submit" /\ r.status = 500 /\ r.detail = "Prediction service failed."

PersistenceFailed(r) ==
    /\ r.op = "submit"
    /\ r.status = 500
    /\ r.detail = "Review saved failed but prediction was successful."

Succeeded(r) == r.op = "submit" /\ r.status = 200

StoreUnchanged == reviews' = reviews /\ movies' = movies /\ committed' = committed

\* C1: a submission made while the model is None is answered 503 and makes
\* no Session call; the store is left as it was, whatever the movie id and
\* the text.
C1_NoModelNoPersistence ==
    [][(resp'.op = "submit" /\ ~model)
          => /\ ModelUnavailable(resp')
             /\ resp'.dbCalls = <<>>
             /\ pending' = pending
             /\ StoreUnchanged]_vars

\* C1 witness: a 503 answered by a process without a model whose store holds
\* reviews (committed by an earlier process that had the model).
C1_Witness ==
    /\ ModelUnavailable(resp)
    /\ ~model
    /\ resp.movie_id = 2
    /\ reviews # {}

\* What it is for a log record to say that the classification succeeded and
\* that the storage failed.
RecordsPredictionSuccess(e) ==
    e.fields \cap {"sentiment", "prediction", "prediction_success"} # {}

RecordsStorageFailure(e) == e.msg = "Database insertion failed"

BlockRaised(r) ==
    r.op = "submit" /\ r.dbCalls # <<>> /\ r.dbCalls[Len(r.dbCalls)] = "rollback"

\* C2: when the classification succeeded and the add/commit/refresh block
\* raised, the response is PersistenceFailed and exactly one log record is
\* emitted, which records the successful classification and the storage
\* failure.
C2_PersistenceFailureLogged ==
    BlockRaised(resp)
        => /\ PersistenceFailed(resp)
           /\ Len(resp.events) = 1
           /\ RecordsStorageFailure(resp.events[1])
           /\ RecordsPredictionSuccess(resp.events[1])

\* C3: every response of /score has positive_count <= total_reviews, a
\* score between 0 and 100, and counts that the store held together at one
\* moment of the query.
C3_ScoreSnapshotConsistent ==
    (resp.op = "score" /\ resp.status = 200)
        => /\ resp.positive_count <= resp.total_reviews
           /\ 0 <= resp.score /\ resp.score <= 10000
           /\ <<resp.total_reviews, resp.positive_count>> \in resp.snaps

NewRows == reviews' \ reviews

\* The submission whose COMMIT the step performs, and the one it answers.
CommittedNow ==
    {p \in AwaitingCommit :
        p \notin pending' /\ InFlight(p.row, p.sentiment, "committed") \in pending'}

AnsweredNow == IF resp'.op = "submit" THEN pending \ pending' ELSE {}

\* A response of /score whose two queries saw the same rows of its movie.
QuietScore(r) == r.op = "score" /\ r.status = 200 /\ Cardinality(r.snaps) = 1

\* C4: the COMMIT of a submission classified positive raises the total and
\* the positive count of its movie by one and leaves the counts of the other
\* movie ids alone; a successful response with a positive label answers a
\* submission whose positive row is in the store; the counts of every movie
\* are at all times the numbers of submissions and seed entries committed
\* for it, all and positive; and /score, when no commit falls between its
\* two queries, answers those numbers.
C4_PositiveSubmissionCounted ==
    /\ [][\A p \in CommittedNow :
             IsPositive(p.sentiment)
                 => \A m \in MovieIds :
                      CountsOf(reviews', m) =
                          IF m = p.row.movie_id
                          THEN <<CountTotal(reviews, m) + 1, CountPositive(reviews, m) + 1>>
                          ELSE CountsOf(reviews, m)]_vars
    /\ [][(Succeeded(resp') /\ IsPositive(resp'.sentiment))
             => \E p \in AnsweredNow :
                   /\ p.row \in reviews
                   /\ p.row.isPos
                   /\ p.row.movie_id = resp'.movie_id
                   /\ p.sentiment = resp'.sentiment]_vars
    /\ [](\A m \in MovieIds : CountsOf(reviews, m) = committed[m])
    /\ [](QuietScore(resp)
             => <<resp.total_reviews, resp.positive_count>> = committed[resp.movie_id])

\* C4 witness: a successful positive submission for movie 1 while movie 2
\* has positive reviews of its own.
C4_Witness ==
    /\ Succeeded(resp)
    /\ IsPositive(resp.sentiment)
    /\ resp.movie_id = 1
    /\ CountPositive(reviews, 1) >= 1
    /\ CountPositive(reviews, 2) >= 1

IsSuccessEvent(e) ==
    /\ e.level = "INFO"
    /\ {"movie_id", "sentiment", "model_version"} \subseteq e.fields

\* C5: a successful submission emits exactly one success record carrying the
\* movie id, the label and the version tag, and answers with the label and
\* the version tag; a failed submission emits no such record.
C5_SuccessEventEmitted ==
    /\ Succeeded(resp)
          => /\ Len(SelectSeq(resp.events, LAMBDA e : IsSuccessEvent(e))) = 1
             /\ resp.sentiment.isStr
             /\ resp.model_version = latest_run_id
    /\ (resp.op = "submit" /\ ~Succeeded(resp))
          => SelectSeq(resp.events, LAMBDA e : IsSuccessEvent(e)) = <<>>

\* C6: when the prediction raises, the response is ClassificationFailed, an
\* error record is logged, no Session call is made and the store is left as
\* it was.
C6_ClassificationFailureNotPersisted ==
    [][\A out \in {o \in PredictOutcomes : PredictionRaises(o)} :
          (/\ model
           /\ resp'.op = "submit"
           /\ \E text \in Texts : submit_and_predict_review(resp'.movie_id, text, out, "none"))
          => /\ ClassificationFailed(resp')
             /\ \E i \in 1..Len(resp'.events) : resp'.events[i].level = "ERROR"
             /\ resp'.dbCalls = <<>>
             /\ pending' = pending
             /\ StoreUnchanged]_vars

\* C6 witness: a ClassificationFailed response with its error record, from
\* a process whose store holds reviews.
C6_Witness ==
    /\ ClassificationFailed(resp)
    /\ model
    /\ resp.events = PredictionEvents
    /\ reviews # {}

HasPrint(r, msg) == \E i \in 1..Len(r.events) : r.events[i].msg = msg

\* C7 as stated: a start-up on a store that holds a movie or a review adds
\* no movie and no review.
C7_NonEmptyStoreNotSeeded ==
    [][(resp'.op = "startup" /\ (movies # {} \/ reviews # {}))
          => (movies' = movies /\ reviews' = reviews)]_vars

\* C7 amended: a start-up on a store that holds a movie adds no movie and no
\* review, so every run of the seeder after one that committed movies leaves
\* the store as it found it.
C7_SeederSkipsWhenMoviesPresent ==
    [][(resp'.op = "startup" /\ movies # {}) => StoreUnchanged]_vars

\* C7 witness: a start-up that found movies and reviews and skipped the
\* seeding.
C7_Witness ==
    /\ resp.op = "startup"
    /\ HasPrint(resp, "Database already seeded")
    /\ movies # {}
    /\ reviews # {}

\* The seeding failed on its data: a file is missing or is not JSON, a movie
\* entry lacks a key, or a review entry does not unpack.
SeedingFailed(r) ==
    /\ r.op = "startup"
    /\ \/ HasPrint(r, "CRITICAL ERROR: Data file not found")
       \/ HasPrint(r, "CRITICAL ERROR: invalid JSON")
       \/ r.detail \in {"KeyError", "ValueError"}

\* The records of a seeding that failed.
IsSeedFailureEvent(e) ==
    e.msg \in {"CRITICAL ERROR: Data file not found",
               "CRITICAL ERROR: invalid JSON",
               "FATAL ERROR during startup/seeding"}

\* C8: a seeding of the empty store that fails on its data is logged and
\* leaves the store empty.
C8_FailedSeedingLeavesStoreEmpty ==
    [][(movies = {} /\ reviews = {} /\ SeedingFailed(resp'))
          => /\ \E i \in 1..Len(resp'.events) : IsSeedFailureEvent(resp'.events[i])
             /\ movies' = {}
             /\ reviews' = {}]_vars

\* C9: /reviews answers with at most 3 rows, stored rows of the requested
\* movie, in strictly decreasing review_id, and no stored row of that movie
\* that is left out has a larger review_id than a row of the answer.
C9_RecentReviewsNewestFirst ==
    (resp.op = "reviews" /\ resp.status = 200)
        => /\ Len(resp.rows) <= 3
           /\ \A i \in 1..Len(resp.rows) :
                resp.rows[i] \in reviews /\ resp.rows[i].movie_id = resp.movie_id
           /\ \A i, j \in 1..Len(resp.rows) :
                i < j => resp.rows[i].review_id > resp.rows[j].review_id
           /\ \A r \in reviews :
                (r.movie_id = resp.movie_id /\ \A i \in 1..Len(resp.rows) : resp.rows[i] # r)
                    => \A i \in 1..Len(resp.rows) : r.review_id < resp.rows[i].review_id

\* C9 witness: an answer of 3 rows for a movie that has more than 3 rows.
C9_Witness ==
    /\ resp.op = "reviews"
    /\ Len(resp.rows) = 3
    /\ CountTotal(reviews, resp.movie_id) > 3

Abs(x) == IF x < 0 THEN -x ELSE x

\* C10: the score of a response of /score is positive/total x 100 to the
\* nearest hundredth, 0.0 when total is 0; the counts are those of the store
\* when it did not change during the query; a movie without reviews gets
\* {0, 0, 0.0}, and 2 positive of 3 gets 66.67.
C10_ScoreRoundedPercentage ==
    (resp.op = "score" /\ resp.status = 200)
        => /\ resp.total_reviews = 0 => resp.score = 0
           /\ resp.total_reviews > 0 =>
                2 * Abs(resp.score * resp.total_reviews - 10000 * resp.positive_count)
                    <= resp.total_reviews
           /\ Cardinality(resp.snaps) = 1 =>
                /\ resp.total_reviews = Cardinality({r \in reviews : r.movie_id = resp.movie_id})
                /\ resp.positive_count =
                       Cardinality({r \in reviews : r.movie_id = resp.movie_id /\ r.isPos = TRUE})
           /\ (\A r \in reviews : r.movie_id # resp.movie_id) =>
                (resp.total_reviews = 0 /\ resp.positive_count = 0 /\ resp.score = 0)
           /\ (resp.total_reviews = 3 /\ resp.positive_count = 2) => resp.score = 6667

\* C10 witness: the score of a movie with 3 reviews, 2 of them positive.
C10_Witness ==
    /\ resp.op = "score"
    /\ resp.status = 200
    /\ CountsOf(reviews, resp.movie_id) = <<3, 2>>
    /\ resp.total_reviews = 3
    /\ resp.positive_count = 2
    /\ resp.score = 6667

Classified == {o \in PredictOutcomes : ~PredictionRaises(o)}

NewInFlight == {p \in pending' \ pending : p.phase = "inserted"}

\* The flag of every row that a request INSERTs is the one the label of the
\* classifier gives, a request in flight keeps its row and its label, and
\* the row that a COMMIT adds to the store is the row of the request.
SubmittedFlagFromLabel ==
    /\ NewInFlight # {} =>
         \A out \in Classified, movie_id \in MovieIds :
            (\E text \in Texts : submit_and_predict_review(movie_id, text, out, "none"))
                => \A p \in NewInFlight :
                     /\ p.row.isPos = MatchesPositive(out.prediction[1].chars)
                     /\ p.sentiment = out.prediction[1]
    /\ \A p \in pending' \ NewInFlight :
         \E q \in pending : q.row = p.row /\ q.sentiment = p.sentiment
    /\ \A p \in CommittedNow : NewRows = {p.row}

\* r is the row of an entry of the reviews file data, for a movie of ms.
SeedEntryRow(r, data, ms) ==
    \E i \in 1..Len(data) :
        /\ data[i].shapeOk
        /\ r.isPos = data[i].isPos
        /\ r.review = data[i].text
        /\ r.movie_id = MovieIdOfName(ms, data[i].name)

\* The rows that a start-up adds to the store are entries of the reviews
\* file that its seeder read, with the flag the file gives.
SeededFlagFromFile ==
    (resp'.op = "startup" /\ NewRows # {}) =>
        \A in \in SeedInputsRead(movies, movie_id_seq) :
            LET out == seed_database(movies, reviews, movie_id_seq, review_id_seq,
                                     in.mf, in.rf, in.dbUp)
            IN  (out.movies = movies' /\ out.reviews = reviews')
                    => \A r \in NewRows : SeedEntryRow(r, in.rf.data, movies')

\* C11 as stated: every row enters the store by the COMMIT of a submission,
\* with the flag the classifier's label gave when it was submitted (TRUE
\* exactly when the label is "positive" up to case), and no step changes or
\* removes a stored row.
C11_EveryFlagFromClassifier ==
    [][/\ \A r \in NewRows : \E p \in CommittedNow : p.row = r
       /\ SubmittedFlagFromLabel
       /\ reviews \subseteq reviews']_vars

\* C11 amended: a row enters the store by the COMMIT of a submission or by
\* the seeder; a submitted row has the flag the classifier's label gave when
\* it was submitted, a seeded row the flag of the seed file; no step changes
\* or removes a stored row.
C11_SubmittedFlagFromClassifier ==
    [][/\ \A r \in NewRows :
            \/ \E p \in CommittedNow : p.row = r
            \/ resp'.op = "startup"
       /\ SubmittedFlagFromLabel
       /\ SeededFlagFromFile
       /\ reviews \subseteq reviews']_vars

\* C11 witness: a successful submission labelled "Positive" whose row, the
\* newest of the store, is flagged positive, in a store that was seeded.
C11_Witness ==
    /\ Succeeded(resp)
    /\ resp.sentiment.chars = LPositive
    /\ movies # {}
    /\ Cardinality(reviews) >= 2
    /\ MaxIdOf(reviews).isPos
    /\ MaxIdOf(reviews).movie_id = resp.movie_id

\* C12: the row of a submission answered with the persistence failure is
\* not in the table movie_reviews, so no later query shows it.
C12_FailedSubmissionNotStored ==
    [][PersistenceFailed(resp') => \A p \in AnsweredNow : p.row \notin reviews']_vars

====
